---- MODULE Spec2Model ----
(***************************************************************************)
(* Trial engine of src/osu-experiment.jsx (the OsuExperiment component):   *)
(* the scoring functions, the path calculator, the trial state machine     *)
(* (startGame, countdown, startTrial, handlePointerDown/Up/Move,           *)
(* nextTrial, play again, resize, unmount) and the tracking sampler with   *)
(* its frame driver (startTrackingAnimation).                              *)
(*                                                                         *)
(* Conventions.                                                            *)
(*  - Time is in milliseconds and passes only in the Tick action, by      *)
(*    TimeStep.  Instead of performance.now() and the instants read from   *)
(*    it, the state holds the differences the code computes from them: the *)
(*    time since clickStartTime, the time since a tracking closure's       *)
(*    startTime, and the time left until each timer is due.  A callback    *)
(*    that is due runs before another TimeStep has passed (the event loop  *)
(*    is idle between events), in any order with the other due callbacks   *)
(*    and with the input events.  trialStartTime is written and never      *)
(*    read, and is left out.                                               *)
(*  - Every handler runs on the last committed render: React flushes the   *)
(*    state updates of a handler, re-renders and runs the effects whose    *)
(*    dependencies changed before the next event is dispatched.  What a    *)
(*    callback closed over (nextTrial, startTrackingAnimation) is stored   *)
(*    with the timer that holds the callback.                              *)
(*  - Normalised coordinates (0..1) are written in percent, pixels are     *)
(*    whole numbers; tracking points are kept as a numerator over          *)
(*    trackingMaxDistance, ratios as a pair [num, den].                    *)
(*  - The floating "+points" overlay (showPoints, floatingPoints) and the  *)
(*    render-only copies of the refs (cursorPosition, isClicking,          *)
(*    trackingPoints mirror cursorRef, isClickingRef, trackingPointsRef)   *)
(*    belong to rendering and are left out.                                *)
(***************************************************************************)
EXTENDS Integers, Sequences, FiniteSets, TLC

\* ---------------------------------------------------------------- bounds
\* trials per run (TRIAL_CONFIG.totalTrials is 20)
NumTrials == 2
\* a track lasts TrackSteps * TimeStep milliseconds (the catalog has 3000..5000)
TrackSteps == 2
\* events of a behaviour that leave the plain course of a run (every press
\* at once and on the target centre, the pointer held and at rest): a move,
\* a release, a press off the centre or after time has passed, a press on
\* the last target while a trial-advance is pending, a window resize
MaxExtra == 1

\* ------------------------------------------------------- TRIAL_CONFIG
targetRadius == 40
trackingMaxDistance == 80
samplingRate == 16
maxClickPoints == 400
maxReactionTime == 1000
maxPointsPerSample == 5
clickPerfectDist == 10
clickGreatDist == 25
clickPerfectTime == 200
clickGreatTime == 400
\* trackPerfectPct 0.9, trackGreatPct 0.7, trackOkPct 0.5, in percent
trackPerfectPct == 90
trackGreatPct == 70
trackOkPct == 50
\* setTimeout(nextTrial, 100)
advanceDelay == 100
\* setTimeout(() => setCountdown(countdown - 1), 1000)
countdownDelay == 1000
\* setCountdown(3)
countdownStart == 3

\* granularity of the clock
TimeStep == maxReactionTime \div 2

\* time between two frames of requestAnimationFrame: that of the sampler
framePeriod == samplingRate

\* the reaction clock is followed up to here: past maxReactionTime every
\* reading of it scores alike
ClockCap == maxReactionTime + TimeStep

Max(a, b) == IF a >= b THEN a ELSE b
Min(a, b) == IF a <= b THEN a ELSE b
Abs(a) == IF a >= 0 THEN a ELSE -a

\* Math.round(num / den), den > 0: floor(x + 1/2)
Round(num, den) == (2 * num + den) \div (2 * den)

RECURSIVE SqrtBetween(_, _, _)
SqrtBetween(n, lo, hi) ==
    IF lo >= hi THEN lo
    ELSE LET mid == (lo + hi + 1) \div 2
         IN IF mid * mid <= n THEN SqrtBetween(n, mid, hi)
            ELSE SqrtBetween(n, lo, mid - 1)

\* Math.sqrt(Math.pow(x1 - x2, 2) + Math.pow(y1 - y2, 2)) on whole pixels:
\* exact when the sum is a perfect square, else rounded down
Distance(p, q) ==
    SqrtBetween((p.x - q.x) * (p.x - q.x) + (p.y - q.y) * (p.y - q.y),
                0, Abs(p.x - q.x) + Abs(p.y - q.y))

\* ------------------------------------------------------------- catalog
\* TRIAL_CONFIG.clickSequences[0]
seq_1 ==
    [id |-> "seq_1", type |-> "click_sequence",
     positions |-> << [x |-> 20, y |-> 30], [x |-> 40, y |-> 50],
                      [x |-> 60, y |-> 30], [x |-> 80, y |-> 50],
                      [x |-> 50, y |-> 70] >>]

\* TRIAL_CONFIG.trackShapes[0] as initializeTrials rewrites it (startX and
\* startY copied into params), with the duration shortened to TrackSteps
track_line ==
    [id |-> "track_line", type |-> "track", shape |-> "line",
     params |-> [startX |-> 10, startY |-> 50, endX |-> 90, endY |-> 50,
                 duration |-> TrackSteps * TimeStep]]

\* TRIAL_CONFIG.trackShapes[1..4] as initializeTrials rewrites them
track_wave ==
    [id |-> "track_wave", type |-> "track", shape |-> "wave",
     params |-> [startX |-> 10, startY |-> 50, amplitude |-> 15, frequency |-> 2,
                 endX |-> 90, duration |-> 4000]]

track_circle ==
    [id |-> "track_circle", type |-> "track", shape |-> "circle",
     params |-> [startX |-> 50, startY |-> 25, centerX |-> 50, centerY |-> 50,
                 radius |-> 25, duration |-> 4000]]

track_blob ==
    [id |-> "track_blob", type |-> "track", shape |-> "blob",
     params |-> [startX |-> 30, startY |-> 30,
                 points |-> << <<30, 30>>, <<70, 25>>, <<75, 70>>, <<25, 65>> >>,
                 duration |-> 5000]]

track_zigzag ==
    [id |-> "track_zigzag", type |-> "track", shape |-> "zigzag",
     params |-> [startX |-> 10, startY |-> 30,
                 points |-> << <<10, 30>>, <<30, 70>>, <<50, 30>>, <<70, 70>>,
                               <<90, 30>> >>,
                 duration |-> 4500]]

\* TRIAL_CONFIG.trackShapes
trackShapes == {track_line, track_wave, track_circle, track_blob, track_zigzag}

\* allTrialTypes of initializeTrials, with the first click sequence and the
\* first track shape of the catalog
allTrialTypes == {seq_1, track_line}

\* ---------------------------------------------------- path calculator
\* Positions on a path are exact fractions of the canvas: a coordinate is
\* the pair num / den of a percentage.  Arithmetic is that of the reals (the
\* rounding of the doubles, 1e-16 of the canvas, is not followed).

\* Math.sin and Math.cos are tabulated at the multiples of 1/24 of a turn,
\* in thousandths
turnSteps == 24
trigScale == 1000
sinTable == <<0, 259, 500, 707, 866, 966, 1000>>

\* Math.sin(k / 24 turn) * 1000
Sin(k) ==
    LET r == k % turnSteps
    IN IF r <= 6 THEN sinTable[r + 1]
       ELSE IF r <= 12 THEN sinTable[12 - r + 1]
       ELSE IF r <= 18 THEN 0 - sinTable[r - 12 + 1]
       ELSE 0 - sinTable[turnSteps - r + 1]

\* Math.cos(k / 24 turn) * 1000
Cos(k) == Sin(k + 6)

\* catmullRom with two of the coefficients of p1 exchanged
catmullRomMiscopied(p0, p1, p2, p3, n, d) ==
    [num |-> 2 * p1 * d * d * d
               + (p2 - p0) * n * d * d
               + (2 * p0 - 3 * p1 + 4 * p2 - p3) * n * n * d
               + (5 * p1 - p0 - 3 * p2 + p3) * n * n * n,
     den |-> 2 * d * d * d]

\* catmullRom(p0, p1, p2, p3, t) with t = n / d
catmullRom(p0, p1, p2, p3, n, d) ==
    [num |-> 2 * p1 * d * d * d
               + (p2 - p0) * n * d * d
               + (2 * p0 - 5 * p1 + 4 * p2 - p3) * n * n * d
               + (3 * p1 - p0 - 3 * p2 + p3) * n * n * n,
     den |-> 2 * d * d * d]

\* case 'line', t = t / duration
PathLine(params, t, duration) ==
    [x |-> [num |-> params.startX * duration + (params.endX - params.startX) * t,
            den |-> duration],
     y |-> [num |-> params.startY * duration + (params.endY - params.startY) * t,
            den |-> duration]]

\* case 'wave'; the angle t * 2 * PI * frequency is taken on the table
PathWave(params, t, duration) ==
    LET angle == (turnSteps * params.frequency * t) \div duration
    IN [x |-> [num |-> params.startX * duration
                          + (params.endX - params.startX) * t,
               den |-> duration],
        y |-> [num |-> params.startY * trigScale + Sin(angle) * params.amplitude,
               den |-> trigScale]]

\* PathCircle with the angle counted from the positive x axis
PathCircleFromEast(params, t, duration) ==
    LET angle == (turnSteps * t) \div duration
    IN [x |-> [num |-> params.centerX * trigScale + Cos(angle) * params.radius,
               den |-> trigScale],
        y |-> [num |-> params.centerY * trigScale + Sin(angle) * params.radius,
               den |-> trigScale]]

\* case 'circle'; the angle t * 2 * PI - PI / 2 is taken on the table
PathCircle(params, t, duration) ==
    LET angle == (turnSteps * t) \div duration - 6
    IN [x |-> [num |-> params.centerX * trigScale + Cos(angle) * params.radius,
               den |-> trigScale],
        y |-> [num |-> params.centerY * trigScale + Sin(angle) * params.radius,
               den |-> trigScale]]

\* Math.min(Math.floor(t * totalSegments), totalSegments - 1)
segmentIndex(points, t, duration) ==
    LET totalSegments == Len(points) - 1
    IN Min((t * totalSegments) \div duration, totalSegments - 1)

\* segmentProgress - segmentIndex, as a numerator over duration
localT(points, t, duration) ==
    t * (Len(points) - 1) - segmentIndex(points, t, duration) * duration

\* the point of the segment with the given index at the local fraction
\* n / d: Catmull-Rom for a blob of four or more points, linear otherwise
\* (points[k] of the code is points[k + 1] here)
SegmentPoint(shape, points, index, n, d) ==
    LET p1 == points[index + 1]
        p2 == points[index + 2]
    IN IF shape = "blob" /\ Len(points) >= 4
       THEN LET p0 == points[Max(0, index - 1) + 1]
                p3 == points[Min(Len(points) - 1, index + 2) + 1]
            IN [x |-> catmullRom(p0[1], p1[1], p2[1], p3[1], n, d),
                y |-> catmullRom(p0[2], p1[2], p2[2], p3[2], n, d)]
       ELSE [x |-> [num |-> p1[1] * d + (p2[1] - p1[1]) * n, den |-> d],
             y |-> [num |-> p1[2] * d + (p2[2] - p1[2]) * n, den |-> d]]

\* case 'blob', case 'zigzag'
PathPolyline(shape, params, t, duration) ==
    SegmentPoint(shape, params.points, segmentIndex(params.points, t, duration),
                 localT(params.points, t, duration), duration)

\* { x: x * canvasWidth, y: y * canvasHeight }, in whole pixels
ToPixels(point, canvasWidth, canvasHeight) ==
    [x |-> (point.x.num * canvasWidth) \div (100 * point.x.den),
     y |-> (point.y.num * canvasHeight) \div (100 * point.y.den)]

\* getPositionOnPath(shape, params, elapsed / duration, width, height);
\* progress is the pair elapsed, duration (duration > 0)
getPositionOnPath(shape, params, elapsed, duration, canvasWidth, canvasHeight) ==
    LET t == Min(duration, Max(0, elapsed))
    IN IF shape = "line"
       THEN ToPixels(PathLine(params, t, duration), canvasWidth, canvasHeight)
       ELSE IF shape = "wave"
       THEN ToPixels(PathWave(params, t, duration), canvasWidth, canvasHeight)
       ELSE IF shape = "circle"
       THEN ToPixels(PathCircle(params, t, duration), canvasWidth, canvasHeight)
       ELSE IF shape \in {"blob", "zigzag"}
       THEN ToPixels(PathPolyline(shape, params, t, duration),
                     canvasWidth, canvasHeight)
       ELSE [x |-> canvasWidth \div 2, y |-> canvasHeight \div 2]

\* ------------------------------------------------------------- scoring
\* calculateClickPoints with the time factor not held at 0
calculateClickPointsUnclamped(distance, reactionTime) ==
    IF distance > targetRadius
    THEN [points |-> 0, grade |-> "MISS"]
    ELSE [points |-> Round(maxClickPoints * (targetRadius - distance)
                              * (maxReactionTime - reactionTime),
                           targetRadius * maxReactionTime),
          grade |-> "OK"]

\* calculateClickPoints with the edge of the target counted as outside
calculateClickPointsMissAtEdge(distance, reactionTime) ==
    IF distance >= targetRadius
    THEN [points |-> 0, grade |-> "MISS"]
    ELSE LET accuracyFactor == Max(0, targetRadius - distance)
             timeFactor == Max(0, maxReactionTime - reactionTime)
         IN [points |-> Round(maxClickPoints * accuracyFactor * timeFactor,
                              targetRadius * maxReactionTime),
             grade |-> IF distance <= clickPerfectDist
                          /\ reactionTime <= clickPerfectTime
                       THEN "PERFECT"
                       ELSE IF distance <= clickGreatDist
                               /\ reactionTime <= clickGreatTime
                            THEN "GREAT"
                            ELSE "OK"]

\* calculateClickPoints with the grade thresholds exclusive
calculateClickPointsStrictGrades(distance, reactionTime) ==
    IF distance > targetRadius
    THEN [points |-> 0, grade |-> "MISS"]
    ELSE LET accuracyFactor == Max(0, targetRadius - distance)
             timeFactor == Max(0, maxReactionTime - reactionTime)
         IN [points |-> Round(maxClickPoints * accuracyFactor * timeFactor,
                              targetRadius * maxReactionTime),
             grade |-> IF distance < clickPerfectDist
                          /\ reactionTime < clickPerfectTime
                       THEN "PERFECT"
                       ELSE IF distance < clickGreatDist
                               /\ reactionTime < clickGreatTime
                            THEN "GREAT"
                            ELSE "OK"]

calculateClickPoints(distance, reactionTime) ==
    IF distance > targetRadius
    THEN [points |-> 0, grade |-> "MISS"]
    ELSE LET accuracyFactor == Max(0, targetRadius - distance)
             timeFactor == Max(0, maxReactionTime - reactionTime)
         IN [points |-> Round(maxClickPoints * accuracyFactor * timeFactor,
                              targetRadius * maxReactionTime),
             grade |-> IF distance <= clickPerfectDist
                          /\ reactionTime <= clickPerfectTime
                       THEN "PERFECT"
                       ELSE IF distance <= clickGreatDist
                               /\ reactionTime <= clickGreatTime
                            THEN "GREAT"
                            ELSE "OK"]

\* calculateTrackingSamplePoints with the click radius as the distance at
\* which a sample is worth nothing
calculateTrackingSamplePointsByRadius(distance, isClicking) ==
    IF ~isClicking THEN 0
    ELSE maxPointsPerSample * Max(0, targetRadius - distance)

\* numerator over trackingMaxDistance
calculateTrackingSamplePoints(distance, isClicking) ==
    IF ~isClicking THEN 0
    ELSE maxPointsPerSample * Max(0, trackingMaxDistance - distance)

\* getTrackingGrade with the thresholds exclusive
getTrackingGradeStrict(accuracy) ==
    IF accuracy.num * 100 > trackPerfectPct * accuracy.den THEN "PERFECT"
    ELSE IF accuracy.num * 100 > trackGreatPct * accuracy.den THEN "GREAT"
    ELSE IF accuracy.num * 100 > trackOkPct * accuracy.den THEN "OK"
    ELSE "POOR"

\* accuracy is the pair num / den
getTrackingGrade(accuracy) ==
    IF accuracy.num * 100 >= trackPerfectPct * accuracy.den THEN "PERFECT"
    ELSE IF accuracy.num * 100 >= trackGreatPct * accuracy.den THEN "GREAT"
    ELSE IF accuracy.num * 100 >= trackOkPct * accuracy.den THEN "OK"
    ELSE "POOR"

\* --------------------------------------------------------------- state
VARIABLES
    mounted,            \* the component is mounted
    gameState,          \* 'intro' | 'countdown' | 'playing' | 'results'
    trials,             \* the run's trial instances
    currentTrialIndex,
    trialData,          \* the results list
    totalScore,
    countdown,
    targetPosition,
    cursorRef,
    isClickingRef,
    trackingStarted,
    currentClickIndex,
    sinceClickStart,    \* performance.now() - clickStartTime, up to ClockCap
    trackingPointsRef,
    canvasSize,
    animationRef,       \* slot of the closure that made the last frame request
    sampleIntervalRef,  \* slot of the closure that made the last setInterval
    countdownTimer,     \* time until the countdown effect's timeout is due, or NoTimer
    advanceTimers,      \* pending setTimeout(nextTrial, 100), oldest first
    anims,              \* the closures of startTrackingAnimation, by slot
    extras,             \* events counted against MaxExtra so far
    lastEvent,          \* "press" after handlePointerDown ran, "start" after
                        \* startTrial ran, else "other"
    probe               \* a call of a scoring function: its arguments and result

trialVars ==
    <<trackingStarted, isClickingRef, trackingPointsRef, currentClickIndex,
      targetPosition, sinceClickStart>>

runVars == <<gameState, trials, currentTrialIndex, trialData, totalScore, countdown>>

timerVars == <<countdownTimer, advanceTimers, anims, animationRef, sampleIntervalRef>>

vars ==
    <<mounted, gameState, trials, currentTrialIndex, trialData, totalScore,
      countdown, targetPosition, cursorRef, isClickingRef, trackingStarted,
      currentClickIndex, sinceClickStart, trackingPointsRef, canvasSize,
      animationRef, sampleIntervalRef, countdownTimer, advanceTimers, anims,
      extras, lastEvent, probe>>

NoTimer == -1

\* no call of a scoring function is followed
NoProbe == [fn |-> "none"]

\* a free slot: no interval and no frame request of it is scheduled
NoAnim == [intervalLive |-> FALSE, frameLive |-> FALSE]

\* slots for tracking closures: one more starts while another is scheduled
\* only after a resize or a stale trial-advance, so that within MaxExtra a
\* press that starts tracking always finds a free slot
Slots == 1..(MaxExtra + 2)

\* ---------------------------------------------------------------- inputs
\* horizontal offsets of a press from the current target, in pixels
PressOffsets == {0, 20, 50}

\* pointer positions reported by move events
CursorPoints == {[x |-> 400, y |-> 300], [x |-> 440, y |-> 300]}

\* canvas sizes a resize may measure
CanvasSizes == {[width |-> 800, height |-> 600], [width |-> 900, height |-> 600]}

\* -------------------------------------------------------------- helpers
\* { x: pos.x * canvasSize.width, y: pos.y * canvasSize.height }
Scale(pos, size) ==
    [x |-> (pos.x * size.width) \div 100, y |-> (pos.y * size.height) \div 100]

\* WithInstance with the instance ids counted from 1
WithInstanceFromOne(t, i) ==
    IF t.type = "click_sequence"
    THEN [id |-> t.id, type |-> t.type, positions |-> t.positions,
          instanceId |-> i + 1]
    ELSE [id |-> t.id, type |-> t.type, shape |-> t.shape, params |-> t.params,
          instanceId |-> i + 1]

\* { ...allTrialTypes[randomIndex], instanceId: i }
WithInstance(t, i) ==
    IF t.type = "click_sequence"
    THEN [id |-> t.id, type |-> t.type, positions |-> t.positions, instanceId |-> i]
    ELSE [id |-> t.id, type |-> t.type, shape |-> t.shape, params |-> t.params,
          instanceId |-> i]

\* trials[currentTrialIndex] is defined
HasTrial(index) == index + 1 \in DOMAIN trials

\* closures with nothing scheduled are dropped
Collect(f) ==
    [i \in DOMAIN f |-> IF f[i].intervalLive \/ f[i].frameLive THEN f[i] ELSE NoAnim]

\* clearInterval(id) / cancelAnimationFrame(id), id 0 being no id
ClearInterval(f, id) ==
    IF id \in DOMAIN f THEN [f EXCEPT ![id].intervalLive = FALSE] ELSE f

CancelFrame(f, id) ==
    IF id \in DOMAIN f THEN [f EXCEPT ![id].frameLive = FALSE] ELSE f

FreeSlots == {i \in Slots : anims[i] = NoAnim}

\* ----------------------------------------------------------------- Init
\* the component after construction: the initial values of useState, useRef
Constructed ==
    /\ mounted = TRUE
    /\ gameState = "intro"
    /\ trials = <<>>
    /\ currentTrialIndex = 0
    /\ trialData = <<>>
    /\ totalScore = 0
    /\ countdown = countdownStart
    /\ targetPosition = [x |-> 0, y |-> 0]
    /\ cursorRef = [x |-> 0, y |-> 0]
    /\ isClickingRef = FALSE
    /\ trackingStarted = FALSE
    /\ currentClickIndex = 0
    /\ sinceClickStart = 0
    /\ trackingPointsRef = 0
    /\ canvasSize = [width |-> 800, height |-> 600]
    /\ animationRef = 0
    /\ sampleIntervalRef = 0
    /\ countdownTimer = NoTimer
    /\ advanceTimers = <<>>
    /\ anims = [i \in Slots |-> NoAnim]
    /\ extras = 0
    /\ lastEvent = "other"

Init ==
    /\ Constructed
    /\ probe = NoProbe

\* ------------------------------------------------------------ startTrial
\* startTrial without the reset of the pressed flag
StartTrialKeepsFlag(index, size) ==
    IF ~HasTrial(index)
    THEN UNCHANGED trialVars
    ELSE LET trial == trials[index + 1]
         IN /\ trackingStarted' = FALSE
            /\ UNCHANGED isClickingRef
            /\ trackingPointsRef' = 0
            /\ IF trial.type = "click_sequence"
               THEN /\ currentClickIndex' = 0
                    /\ targetPosition' = Scale(trial.positions[1], size)
                    /\ sinceClickStart' = 0
               ELSE /\ targetPosition' =
                         getPositionOnPath(trial.shape, trial.params, 0,
                                           trial.params.duration,
                                           size.width, size.height)
                    /\ UNCHANGED <<currentClickIndex, sinceClickStart>>

StartTrial(index, size) ==
    IF ~HasTrial(index)
    THEN UNCHANGED trialVars
    ELSE LET trial == trials[index + 1]
         IN /\ trackingStarted' = FALSE
            /\ isClickingRef' = FALSE
            /\ trackingPointsRef' = 0
            /\ IF trial.type = "click_sequence"
               THEN /\ currentClickIndex' = 0
                    /\ targetPosition' = Scale(trial.positions[1], size)
                    /\ sinceClickStart' = 0
               ELSE /\ targetPosition' =
                         getPositionOnPath(trial.shape, trial.params, 0,
                                           trial.params.duration,
                                           size.width, size.height)
                    /\ UNCHANGED <<currentClickIndex, sinceClickStart>>

\* the start-trial effect calls startTrial and startTrial finds its trial
Started(state, index) == state = "playing" /\ Len(trials) > 0 /\ HasTrial(index)

\* the effect on [currentTrialIndex, gameState, trials, canvasSize], run
\* after a render in which one of them changed
StartTrialEffect(state, index, size) ==
    IF state = "playing" /\ Len(trials) > 0
    THEN StartTrial(index, size)
    ELSE UNCHANGED trialVars

\* ------------------------------------------------------------- startGame
\* the START button of the intro screen: initializeTrials, then countdown
StartGame ==
    /\ mounted
    /\ gameState = "intro"
    /\ \E selected \in [1..NumTrials -> allTrialTypes] :
          trials' = [i \in 1..NumTrials |-> WithInstance(selected[i], i - 1)]
    /\ currentTrialIndex' = 0
    /\ trialData' = <<>>
    /\ totalScore' = 0
    /\ gameState' = "countdown"
    /\ countdown' = countdownStart
    /\ countdownTimer' = countdownDelay
    /\ lastEvent' = "other"
    /\ UNCHANGED probe
    /\ UNCHANGED <<mounted, trialVars, cursorRef, canvasSize, animationRef,
                   sampleIntervalRef, advanceTimers, anims, extras>>

\* the countdown effect's timeout; reaching 0 sets 'playing', whose render
\* runs the start-trial effect
CountdownFire ==
    /\ mounted
    /\ gameState = "countdown"
    /\ countdown > 0
    /\ countdownTimer = 0
    /\ countdown' = countdown - 1
    /\ IF countdown - 1 = 0
       THEN /\ gameState' = "playing"
            /\ countdownTimer' = NoTimer
            /\ StartTrialEffect("playing", currentTrialIndex, canvasSize)
       ELSE /\ countdownTimer' = countdownDelay
            /\ UNCHANGED <<gameState, trialVars>>
    /\ lastEvent' = IF countdown - 1 = 0 /\ Started("playing", currentTrialIndex)
                    THEN "start" ELSE "other"
    /\ UNCHANGED probe
    /\ UNCHANGED <<mounted, trials, currentTrialIndex, trialData, totalScore,
                   cursorRef, canvasSize, animationRef, sampleIntervalRef,
                   advanceTimers, anims, extras>>

\* ------------------------------------------------------- pointer events
handlePointerMove(p) ==
    /\ mounted
    /\ extras < MaxExtra
    /\ extras' = extras + 1
    /\ cursorRef' = p
    /\ lastEvent' = "other"
    /\ UNCHANGED probe
    /\ UNCHANGED <<mounted, runVars, targetPosition, isClickingRef, trackingStarted,
                   currentClickIndex, sinceClickStart, trackingPointsRef,
                   canvasSize, timerVars>>

handlePointerUp ==
    /\ mounted
    /\ extras < MaxExtra
    /\ extras' = extras + 1
    /\ isClickingRef' = FALSE
    /\ lastEvent' = "other"
    /\ UNCHANGED probe
    /\ UNCHANGED <<mounted, runVars, targetPosition, cursorRef, trackingStarted,
                   currentClickIndex, sinceClickStart, trackingPointsRef,
                   canvasSize, timerVars>>

\* the record handlePointerDown appends for a click at `click`
ClickData(trial, click) ==
    LET dist == Distance(click, targetPosition)
        reactionTime == sinceClickStart
        scored == calculateClickPoints(dist, reactionTime)
    IN [trialId |-> trial.id, instanceId |-> trial.instanceId, type |-> "click",
        clickIndex |-> currentClickIndex, reactionTime |-> reactionTime,
        distance |-> dist, points |-> scored.points, grade |-> scored.grade,
        targetX |-> targetPosition.x, targetY |-> targetPosition.y,
        clickX |-> click.x, clickY |-> click.y]

\* the pending call of a nextTrial closure: what it closed over
AdvanceTimer(index, length) ==
    [remaining |-> advanceDelay, index |-> index, length |-> length]

\* MoreClicks with the last index taken one too small
MoreClicksOneShort(trial) == currentClickIndex < Len(trial.positions) - 2

\* NextClick without the restart of the reaction clock
NextClickKeepsClock(trial) ==
    /\ currentClickIndex' = currentClickIndex + 1
    /\ targetPosition' = [x |-> (trial.positions[currentClickIndex + 2].x
                                    * canvasSize.width) \div 100,
                          y |-> (trial.positions[currentClickIndex + 2].y
                                    * canvasSize.height) \div 100]
    /\ UNCHANGED <<sinceClickStart, advanceTimers>>

\* currentClickIndex < trial.positions.length - 1
MoreClicks(trial) == currentClickIndex < Len(trial.positions) - 1

\* move to the next click of the sequence
NextClick(trial) ==
    /\ currentClickIndex' = currentClickIndex + 1
    /\ targetPosition' = Scale(trial.positions[currentClickIndex + 2], canvasSize)
    /\ sinceClickStart' = 0
    /\ UNCHANGED advanceTimers

\* handlePointerDown, trial.type === 'click_sequence'
ClickSequencePress(trial, click) ==
    LET clickData == ClickData(trial, click)
    IN /\ totalScore' = totalScore + clickData.points
       /\ trialData' = Append(trialData, clickData)
       /\ IF MoreClicks(trial)
          THEN NextClick(trial)
          ELSE /\ advanceTimers' =
                     Append(advanceTimers,
                            AdvanceTimer(currentTrialIndex, Len(trials)))
               /\ UNCHANGED <<currentClickIndex, targetPosition, sinceClickStart>>
       /\ UNCHANGED <<trackingStarted, anims, animationRef, sampleIntervalRef>>

\* startTrackingAnimation(trial): the closure, its interval and its first
\* frame request
NewAnim(trial) ==
    [trial |-> trial, elapsed |-> 0, canvas |-> canvasSize,
     index |-> currentTrialIndex, length |-> Len(trials),
     samples |-> <<>>, lastTargetPos |-> targetPosition, accumulatedPoints |-> 0,
     nextSample |-> samplingRate, nextFrame |-> framePeriod,
     intervalLive |-> TRUE, frameLive |-> TRUE]

\* handlePointerDown, trial.type === 'track' && !trackingStarted
TrackFirstPress(trial) ==
    LET slot == CHOOSE i \in FreeSlots : \A j \in FreeSlots : i <= j
    IN /\ trackingStarted' = TRUE
       /\ anims' = [anims EXCEPT ![slot] = NewAnim(trial)]
       /\ sampleIntervalRef' = slot
       /\ animationRef' = slot
       /\ UNCHANGED <<totalScore, trialData, currentClickIndex, targetPosition,
                      sinceClickStart, advanceTimers>>

\* what a press at offset `off` counts against MaxExtra
PressCost(off) ==
    IF /\ gameState = "playing"
       /\ HasTrial(currentTrialIndex)
       /\ trials[currentTrialIndex + 1].type = "click_sequence"
       /\ \/ off # 0
          \/ sinceClickStart > 0
          \/ /\ currentClickIndex >= Len(trials[currentTrialIndex + 1].positions) - 1
             /\ advanceTimers # <<>>
    THEN 1
    ELSE 0

\* the press would start a tracking closure
StartsTracking ==
    /\ gameState = "playing"
    /\ HasTrial(currentTrialIndex)
    /\ trials[currentTrialIndex + 1].type = "track"
    /\ ~trackingStarted

\* NoActiveTrial without the test of gameState
NoActiveTrialAnyState == ~HasTrial(currentTrialIndex)

\* the early returns of handlePointerDown
NoActiveTrial == gameState # "playing" \/ ~HasTrial(currentTrialIndex)

handlePointerDown(off) ==
    /\ mounted
    /\ extras + PressCost(off) <= MaxExtra
    /\ StartsTracking => FreeSlots # {}
    /\ extras' = extras + PressCost(off)
    /\ lastEvent' = "press"
    /\ UNCHANGED probe
    /\ IF NoActiveTrial
       THEN UNCHANGED <<trialVars, totalScore, trialData, advanceTimers, anims,
                        animationRef, sampleIntervalRef>>
       ELSE LET trial == trials[currentTrialIndex + 1]
                click == [x |-> targetPosition.x + off, y |-> targetPosition.y]
            IN /\ isClickingRef' = TRUE
               /\ UNCHANGED trackingPointsRef
               /\ IF trial.type = "click_sequence"
                  THEN ClickSequencePress(trial, click)
                  ELSE IF trial.type = "track" /\ ~trackingStarted
                       THEN TrackFirstPress(trial)
                       ELSE UNCHANGED <<totalScore, trialData, trackingStarted,
                                        currentClickIndex, targetPosition,
                                        sinceClickStart, advanceTimers, anims,
                                        animationRef, sampleIntervalRef>>
    /\ UNCHANGED <<mounted, gameState, trials, currentTrialIndex, countdown,
                   cursorRef, canvasSize, countdownTimer>>

\* ------------------------------------------------------------- nextTrial
\* the oldest pending setTimeout(nextTrial, 100) runs; after unmount its
\* state updates are dropped
NextTrialFire ==
    /\ advanceTimers # <<>>
    /\ Head(advanceTimers).remaining = 0
    /\ advanceTimers' = Tail(advanceTimers)
    /\ LET t == Head(advanceTimers)
       IN IF ~mounted
          THEN UNCHANGED <<gameState, currentTrialIndex, countdownTimer, trialVars>>
          ELSE IF t.index < t.length - 1
               THEN /\ currentTrialIndex' = currentTrialIndex + 1
                    /\ StartTrialEffect(gameState, currentTrialIndex + 1, canvasSize)
                    /\ UNCHANGED <<gameState, countdownTimer>>
               ELSE /\ gameState' = "results"
                    /\ countdownTimer' = NoTimer
                    /\ UNCHANGED <<currentTrialIndex, trialVars>>
    /\ lastEvent' = IF /\ mounted
                       /\ Head(advanceTimers).index < Head(advanceTimers).length - 1
                       /\ Started(gameState, currentTrialIndex + 1)
                    THEN "start" ELSE "other"
    /\ UNCHANGED probe
    /\ UNCHANGED <<mounted, trials, trialData, totalScore, countdown, cursorRef,
                   canvasSize, animationRef, sampleIntervalRef, anims, extras>>

\* ------------------------------------------------ startTrackingAnimation
\* performance.now() - startTime
Elapsed(a) == a.elapsed

\* Sample with the pressed flag of the render that started the closure
\* instead of the ref's
SampleStaleFlag(elapsed, targetPos, cursorPos, isClicking) ==
    LET distance == Distance(cursorPos, targetPos)
    IN [time |-> elapsed, targetX |-> targetPos.x, targetY |-> targetPos.y,
        cursorX |-> cursorPos.x, cursorY |-> cursorPos.y, distance |-> distance,
        isClicking |-> FALSE,
        samplePoints |-> calculateTrackingSamplePoints(distance, FALSE)]

\* the record the sampler pushes
Sample(elapsed, targetPos, cursorPos, isClicking) ==
    LET distance == Distance(cursorPos, targetPos)
    IN [time |-> elapsed, targetX |-> targetPos.x, targetY |-> targetPos.y,
        cursorX |-> cursorPos.x, cursorY |-> cursorPos.y, distance |-> distance,
        isClicking |-> isClicking,
        samplePoints |-> calculateTrackingSamplePoints(distance, isClicking)]

\* the sampler's test without its bound
SamplingOpenEnded(elapsed, duration) == elapsed >= 0

\* if (progress <= 1), progress being elapsed / duration
Sampling(elapsed, duration) == elapsed <= duration

\* the setInterval callback of the closure in slot i
SampleTick(i) ==
    /\ anims[i].intervalLive
    /\ anims[i].nextSample = 0
    /\ LET a == anims[i]
           duration == a.trial.params.duration
           elapsed == Elapsed(a)
       IN IF Sampling(elapsed, duration)
          THEN LET targetPos ==
                       getPositionOnPath(a.trial.shape, a.trial.params, elapsed,
                                         duration, a.canvas.width, a.canvas.height)
                   sample == Sample(elapsed, targetPos, cursorRef, isClickingRef)
                   samplePoints == sample.samplePoints
               IN /\ anims' =
                        [anims EXCEPT ![i] =
                            [a EXCEPT !.lastTargetPos = targetPos,
                                      !.accumulatedPoints = @ + samplePoints,
                                      !.samples = Append(@, sample),
                                      !.nextSample = samplingRate]]
                  /\ trackingPointsRef' =
                        Round(a.accumulatedPoints + samplePoints, trackingMaxDistance)
          ELSE /\ anims' = [anims EXCEPT ![i].nextSample = samplingRate]
               /\ UNCHANGED trackingPointsRef
    /\ lastEvent' = "other"
    /\ UNCHANGED probe
    /\ UNCHANGED <<mounted, runVars, targetPosition, cursorRef, isClickingRef,
                   trackingStarted, currentClickIndex, sinceClickStart, canvasSize,
                   countdownTimer, advanceTimers, animationRef, sampleIntervalRef,
                   extras>>

RECURSIVE SumDistance(_)
SumDistance(samples) ==
    IF samples = <<>> THEN 0
    ELSE Head(samples).distance + SumDistance(Tail(samples))

\* TrackData with every sample counted as pressed
TrackDataCountsAll(a) ==
    LET samples == a.samples
        accuracy == IF Len(samples) > 0
                    THEN [num |-> Len(samples), den |-> Len(samples)]
                    ELSE [num |-> 0, den |-> 1]
        avgDistance == IF Len(samples) > 0
                       THEN [num |-> SumDistance(samples), den |-> Len(samples)]
                       ELSE [num |-> 0, den |-> 1]
    IN [trialId |-> a.trial.id, instanceId |-> a.trial.instanceId, type |-> "track",
        shape |-> a.trial.shape, duration |-> a.trial.params.duration,
        accuracy |-> accuracy, averageDistance |-> avgDistance,
        points |-> Round(a.accumulatedPoints, trackingMaxDistance),
        grade |-> getTrackingGrade(accuracy), samples |-> samples]

\* the record animate builds when progress >= 1
TrackData(a) ==
    LET samples == a.samples
        clickingSamples == SelectSeq(samples, LAMBDA s : s.isClicking)
        accuracy == IF Len(samples) > 0
                    THEN [num |-> Len(clickingSamples), den |-> Len(samples)]
                    ELSE [num |-> 0, den |-> 1]
        avgDistance == IF Len(samples) > 0
                       THEN [num |-> SumDistance(samples), den |-> Len(samples)]
                       ELSE [num |-> 0, den |-> 1]
    IN [trialId |-> a.trial.id, instanceId |-> a.trial.instanceId, type |-> "track",
        shape |-> a.trial.shape, duration |-> a.trial.params.duration,
        accuracy |-> accuracy, averageDistance |-> avgDistance,
        points |-> Round(a.accumulatedPoints, trackingMaxDistance),
        grade |-> getTrackingGrade(accuracy), samples |-> samples]

\* animate, progress >= 1: stop the sampler named by the ref, record the
\* result, schedule nextTrial, request no further frame
AnimateComplete(i) ==
    LET a == anims[i]
        data == TrackData(a)
    IN /\ anims' = Collect(ClearInterval([anims EXCEPT ![i].frameLive = FALSE],
                                         sampleIntervalRef))
       /\ IF mounted
          THEN /\ totalScore' = totalScore + data.points
               /\ trialData' = Append(trialData, data)
          ELSE UNCHANGED <<totalScore, trialData>>
       /\ advanceTimers' = Append(advanceTimers, AdvanceTimer(a.index, a.length))
       /\ UNCHANGED <<targetPosition, animationRef>>

\* animate, progress < 1: move the target, request the next frame
AnimateStep(i) ==
    LET a == anims[i]
        newPos == getPositionOnPath(a.trial.shape, a.trial.params, Elapsed(a),
                                    a.trial.params.duration,
                                    a.canvas.width, a.canvas.height)
    IN /\ targetPosition' = IF mounted THEN newPos ELSE targetPosition
       /\ anims' = [anims EXCEPT ![i].lastTargetPos = newPos,
                                 ![i].nextFrame = framePeriod]
       /\ animationRef' = i
       /\ UNCHANGED <<totalScore, trialData, advanceTimers>>

\* the requestAnimationFrame callback of the closure in slot i
AnimationFrame(i) ==
    /\ anims[i].frameLive
    /\ anims[i].nextFrame = 0
    /\ IF Elapsed(anims[i]) >= anims[i].trial.params.duration
       THEN AnimateComplete(i)
       ELSE AnimateStep(i)
    /\ lastEvent' = "other"
    /\ UNCHANGED probe
    /\ UNCHANGED <<mounted, gameState, trials, currentTrialIndex, countdown,
                   cursorRef, isClickingRef, trackingStarted, currentClickIndex,
                   sinceClickStart, trackingPointsRef, canvasSize,
                   sampleIntervalRef, countdownTimer, extras>>

\* ------------------------------------------------ resize, again, unmount
\* updateSize on a window resize: a new canvasSize object, so the
\* start-trial effect runs again
Resize(size) ==
    /\ mounted
    /\ extras < MaxExtra
    /\ extras' = extras + 1
    /\ canvasSize' = size
    /\ StartTrialEffect(gameState, currentTrialIndex, size)
    /\ lastEvent' = IF Started(gameState, currentTrialIndex) THEN "start" ELSE "other"
    /\ UNCHANGED probe
    /\ UNCHANGED <<mounted, runVars, cursorRef, timerVars>>

\* PLAY AGAIN without setTotalScore(0)
PlayAgainKeepsScore ==
    /\ mounted
    /\ gameState = "results"
    /\ UNCHANGED extras
    /\ gameState' = "intro"
    /\ trialData' = <<>>
    /\ UNCHANGED totalScore
    /\ lastEvent' = "other"
    /\ UNCHANGED probe
    /\ UNCHANGED <<mounted, trials, currentTrialIndex, countdown, trialVars,
                   cursorRef, canvasSize, timerVars>>

\* the PLAY AGAIN button of the results screen
PlayAgain ==
    /\ mounted
    /\ gameState = "results"
    /\ UNCHANGED extras
    /\ gameState' = "intro"
    /\ trialData' = <<>>
    /\ totalScore' = 0
    /\ lastEvent' = "other"
    /\ UNCHANGED probe
    /\ UNCHANGED <<mounted, trials, currentTrialIndex, countdown, trialVars,
                   cursorRef, canvasSize, timerVars>>

\* the component is torn down: the effects' cleanups run
Unmount ==
    /\ mounted
    /\ UNCHANGED extras
    /\ mounted' = FALSE
    /\ anims' = Collect(ClearInterval(CancelFrame(anims, animationRef),
                                      sampleIntervalRef))
    /\ countdownTimer' = NoTimer
    /\ lastEvent' = "other"
    /\ UNCHANGED probe
    /\ UNCHANGED <<runVars, trialVars, cursorRef, canvasSize, animationRef,
                   sampleIntervalRef, advanceTimers>>

\* the time left on a timer after TimeStep more milliseconds
Later(remaining) == Max(0, remaining - TimeStep)

\* a tracking closure after TimeStep more milliseconds; past the duration
\* every reading of the clock takes the same branches
AnimLater(a) ==
    IF a = NoAnim THEN a
    ELSE [a EXCEPT !.elapsed = Min(@ + TimeStep, a.trial.params.duration + TimeStep),
                   !.nextSample = Later(@),
                   !.nextFrame = Later(@)]

\* a callback is due: the event loop runs it before TimeStep has passed
Due ==
    \/ countdownTimer = 0
    \/ \E k \in DOMAIN advanceTimers : advanceTimers[k].remaining = 0
    \/ \E i \in Slots : anims[i].intervalLive /\ anims[i].nextSample = 0
    \/ \E i \in Slots : anims[i].frameLive /\ anims[i].nextFrame = 0

\* time passes
Tick ==
    /\ ~Due
    /\ sinceClickStart' = Min(sinceClickStart + TimeStep, ClockCap)
    /\ countdownTimer' = IF countdownTimer = NoTimer THEN NoTimer
                         ELSE Later(countdownTimer)
    /\ advanceTimers' = [k \in DOMAIN advanceTimers |->
                            [advanceTimers[k] EXCEPT !.remaining = Later(@)]]
    /\ anims' = [i \in Slots |-> AnimLater(anims[i])]
    /\ lastEvent' = "other"
    /\ UNCHANGED probe
    /\ UNCHANGED <<mounted, runVars, trackingStarted, isClickingRef,
                   trackingPointsRef, currentClickIndex, targetPosition, cursorRef,
                   canvasSize, animationRef, sampleIntervalRef, extras>>

Next ==
    \/ StartGame
    \/ CountdownFire
    \/ \E p \in CursorPoints : handlePointerMove(p)
    \/ \E off \in PressOffsets : handlePointerDown(off)
    \/ handlePointerUp
    \/ NextTrialFire
    \/ \E i \in Slots : SampleTick(i)
    \/ \E i \in Slots : AnimationFrame(i)
    \/ \E size \in CanvasSizes : Resize(size)
    \/ PlayAgain
    \/ Unmount
    \/ Tick

Spec == Init /\ [][Next]_vars

\* ------------------------------------------------ a run of a single trial
\* the component after startGame with TRIAL_CONFIG.totalTrials 1 and a
\* catalog of one click sequence: the countdown is about to run
OneTrialInit ==
    /\ mounted = TRUE
    /\ gameState = "countdown"
    /\ trials = <<WithInstance(seq_1, 0)>>
    /\ currentTrialIndex = 0
    /\ trialData = <<>>
    /\ totalScore = 0
    /\ countdown = countdownStart
    /\ targetPosition = [x |-> 0, y |-> 0]
    /\ cursorRef = [x |-> 0, y |-> 0]
    /\ isClickingRef = FALSE
    /\ trackingStarted = FALSE
    /\ currentClickIndex = 0
    /\ sinceClickStart = 0
    /\ trackingPointsRef = 0
    /\ canvasSize = [width |-> 800, height |-> 600]
    /\ animationRef = 0
    /\ sampleIntervalRef = 0
    /\ countdownTimer = countdownDelay
    /\ advanceTimers = <<>>
    /\ anims = [i \in Slots |-> NoAnim]
    /\ extras = 0
    /\ lastEvent = "other"
    /\ probe = NoProbe

OneTrialSpec == OneTrialInit /\ [][Next]_vars

\* ------------------------------------------------- the scoring functions
\* largest distance, reaction time and number of samples a followed call
\* is given
ProbeDistanceMax == 85
ProbeTimeMax == 1050
ProbeSamplesMax == 10

\* everything but probe
programVars ==
    <<mounted, gameState, trials, currentTrialIndex, trialData, totalScore,
      countdown, targetPosition, cursorRef, isClickingRef, trackingStarted,
      currentClickIndex, sinceClickStart, trackingPointsRef, canvasSize,
      animationRef, sampleIntervalRef, countdownTimer, advanceTimers, anims,
      extras, lastEvent>>

\* calls of calculateClickPoints(distance, reactionTime)
ClickProbes ==
    {[fn |-> "click", done |-> FALSE, distance |-> d, reactionTime |-> rt,
      result |-> [points |-> 0, grade |-> "none"]] :
        d \in 0..ProbeDistanceMax, rt \in 0..ProbeTimeMax}

\* calls of calculateTrackingSamplePoints(distance, isClicking)
SampleProbes ==
    {[fn |-> "sample", done |-> FALSE, distance |-> d, isClicking |-> b,
      result |-> 0] :
        d \in 0..ProbeDistanceMax, b \in BOOLEAN}

\* completions of a tracking closure that sampled `held` times with the
\* pointer pressed and `free` times with it released, the cursor `distance`
\* pixels from the target each time
TrackProbes ==
    {[fn |-> "track", done |-> FALSE, held |-> h, free |-> f, distance |-> d,
      result |-> [points |-> 0, grade |-> "none"]] :
        h \in 0..ProbeSamplesMax, f \in 0..ProbeSamplesMax,
        d \in {0, targetRadius, trackingMaxDistance}}

\* the sample the sampler pushes with the target at the start of track_line
\* and the cursor `distance` pixels to its right
ProbeSample(distance, isClicking) ==
    LET targetPos == getPositionOnPath(track_line.shape, track_line.params, 0,
                                       track_line.params.duration,
                                       canvasSize.width, canvasSize.height)
        cursorPos == [x |-> targetPos.x + distance, y |-> targetPos.y]
    IN Sample(0, targetPos, cursorPos, isClicking)

\* the closure of startTrackingAnimation after those samples
ProbeAnim(p) ==
    LET pressed == ProbeSample(p.distance, TRUE)
        released == ProbeSample(p.distance, FALSE)
    IN [trial |-> WithInstance(track_line, 0),
        samples |-> [k \in 1..(p.held + p.free) |->
                        IF k <= p.held THEN pressed ELSE released],
        accumulatedPoints |-> p.held * pressed.samplePoints
                                 + p.free * released.samplePoints]

ScoreInit ==
    /\ Constructed
    /\ probe \in ClickProbes \cup SampleProbes
                  \cup {p \in TrackProbes : p.held + p.free <= ProbeSamplesMax}

ApplyClick ==
    /\ probe.fn = "click"
    /\ ~probe.done
    /\ probe' = [probe EXCEPT
                    !.done = TRUE,
                    !.result = calculateClickPoints(probe.distance,
                                                    probe.reactionTime)]
    /\ UNCHANGED programVars

ApplySample ==
    /\ probe.fn = "sample"
    /\ ~probe.done
    /\ probe' = [probe EXCEPT
                    !.done = TRUE,
                    !.result = calculateTrackingSamplePoints(probe.distance,
                                                             probe.isClicking)]
    /\ UNCHANGED programVars

ApplyTrack ==
    /\ probe.fn = "track"
    /\ ~probe.done
    /\ probe' = [probe EXCEPT !.done = TRUE, !.result = TrackData(ProbeAnim(probe))]
    /\ UNCHANGED programVars

ScoreNext ==
    \/ ApplyClick
    \/ ApplySample
    \/ ApplyTrack

ScoreSpec == ScoreInit /\ [][ScoreNext]_vars

\* --------------------------------------------------- the path calculator
\* progress is followed in twelfths: every segment boundary of a polyline
\* of two to five points is met
progressSteps == 12
\* twelfths below progress 0 and above progress 1 a followed call is given
PathOvershoot == 3

\* the track shape with its first n control points
ShortenedTo(shape, n) ==
    [shape EXCEPT !.params.points = SubSeq(@, 1, n)]

\* the catalog's track shapes, and the polylines of their first two, three,
\* ... control points
PathInputs ==
    trackShapes
       \cup {ShortenedTo(shape, n) :
                shape \in {track_blob}, n \in 2..Len(track_blob.params.points)}
       \cup {ShortenedTo(shape, n) :
                shape \in {track_zigzag}, n \in 2..Len(track_zigzag.params.points)}

\* calls of getPositionOnPath(shape, params, elapsed / progressSteps, width,
\* height)
PathProbes ==
    {[fn |-> "path", done |-> FALSE, trial |-> shape, elapsed |-> e, size |-> size,
      result |-> [x |-> 0, y |-> 0]] :
        shape \in PathInputs,
        e \in (0 - PathOvershoot)..(progressSteps + PathOvershoot),
        size \in CanvasSizes}

PathInit ==
    /\ Constructed
    /\ probe \in PathProbes

ApplyPath ==
    /\ probe.fn = "path"
    /\ ~probe.done
    /\ probe' = [probe EXCEPT
                    !.done = TRUE,
                    !.result = getPositionOnPath(probe.trial.shape,
                                                 probe.trial.params, probe.elapsed,
                                                 progressSteps, probe.size.width,
                                                 probe.size.height)]
    /\ UNCHANGED programVars

PathNext == ApplyPath

PathSpec == PathInit /\ [][PathNext]_vars

\* =============================================================== claims
\* the record appended last
LastResult == trialData[Len(trialData)]

\* a step of handlePointerDown
PressStep == lastEvent' = "press"

\* the current trial, when there is one
CurrentTrial == trials[currentTrialIndex + 1]

ClickTrialCurrent ==
    /\ gameState = "playing"
    /\ HasTrial(currentTrialIndex)
    /\ CurrentTrial.type = "click_sequence"

TrackTrialCurrent ==
    /\ gameState = "playing"
    /\ HasTrial(currentTrialIndex)
    /\ CurrentTrial.type = "track"

\* the final result of the trial at `index` is in the results list: its
\* click with the last click index, or its tracking result
FinalResultEmitted(index) ==
    \E k \in DOMAIN trialData :
        /\ trialData[k].instanceId = index
        /\ \/ trialData[k].type = "track"
           \/ /\ trialData[k].type = "click"
              /\ trialData[k].clickIndex = Len(seq_1.positions) - 1

\* the current trial has scheduled its trial-advance and it has not fired
AdvancePending ==
    /\ gameState = "playing"
    /\ HasTrial(currentTrialIndex)
    /\ FinalResultEmitted(currentTrialIndex)
    /\ \E k \in DOMAIN advanceTimers : advanceTimers[k].index = currentTrialIndex

\* C1: within a run the current trial index changes only by +1, only after
\* the final result of the trial it leaves has been emitted, and never to a
\* value above NumTrials - 1 (a change at startGame begins a new run).
C1_IndexProgression ==
    [][(currentTrialIndex' # currentTrialIndex /\ gameState' # "countdown")
          => /\ currentTrialIndex' = currentTrialIndex + 1
             /\ currentTrialIndex' <= NumTrials - 1
             /\ FinalResultEmitted(currentTrialIndex)]_vars

\* C2: the runner is never left in 'playing' with no trial at the current
\* index and no trial-advance pending.
C2_NoPlayingWithoutTrial ==
    (mounted /\ gameState = "playing" /\ advanceTimers = <<>>)
        => HasTrial(currentTrialIndex)

\* C3: a press handled while the current trial's trial-advance is pending
\* is a no-op: no result record, no change of total score, click index or
\* target position, no further trial-advance.
C3_LatePressIgnored ==
    [][(PressStep /\ AdvancePending)
          => UNCHANGED <<trialData, totalScore, currentClickIndex,
                         targetPosition, advanceTimers>>]_vars

\* C4: a press handled when there is no active trial (the game state is not
\* 'playing', or there is no trial at the current index) changes nothing: no
\* result, the same total score, click index, pressed flag and
\* tracking-started flag, no timer and no sampler.
C4_PressWithoutTrialIgnored ==
    [][(PressStep /\ (gameState # "playing" \/ ~HasTrial(currentTrialIndex)))
          => UNCHANGED <<mounted, runVars, trialVars, cursorRef, canvasSize,
                         timerVars>>]_vars

\* C4 witness: a press was handled on the results screen of a finished run
C4_Witness ==
    /\ lastEvent = "press"
    /\ gameState = "results"
    /\ trialData # <<>>

\* index of the last click of a sequence
LastClickIndex == Len(seq_1.positions) - 1

\* C5: while a click-sequence trial is current the click index is in
\* 0..LastClickIndex, and a press handled in such a trial schedules a
\* trial-advance exactly when the click index is LastClickIndex.
C5_ClickIndexAndAdvance ==
    [][/\ ClickTrialCurrent' => currentClickIndex' \in 0..LastClickIndex
       /\ (PressStep /\ ClickTrialCurrent)
             => (advanceTimers' # advanceTimers
                    <=> currentClickIndex = LastClickIndex)]_vars

\* C5 witness: the press at the last click index was handled and its
\* trial-advance is pending
C5_Witness ==
    /\ lastEvent = "press"
    /\ ClickTrialCurrent
    /\ currentClickIndex = LastClickIndex
    /\ Len(trialData) = LastClickIndex + 1
    /\ LastResult.clickIndex = LastClickIndex
    /\ Len(advanceTimers) = 1

\* C6: the total score is lowered or rewritten only by startGame and by
\* play again; every record appended to the results carries points >= 0 and
\* raises the total score by them.
C6_ScoreNeverDecreases ==
    [][/\ totalScore' < totalScore
             => /\ totalScore' = 0
                /\ \/ gameState = "intro" /\ gameState' = "countdown"
                   \/ gameState = "results" /\ gameState' = "intro"
       /\ Len(trialData') = Len(trialData) + 1
             => /\ trialData'[Len(trialData')].points >= 0
                /\ totalScore' = totalScore + trialData'[Len(trialData')].points]_vars

\* C6 witness: a click result and a tracking result, both with points, have
\* been added to the score
C6_Witness ==
    /\ \E k \in DOMAIN trialData :
          trialData[k].type = "click" /\ trialData[k].points > 0
    /\ \E k \in DOMAIN trialData :
          trialData[k].type = "track" /\ trialData[k].points > 0
    /\ totalScore > maxClickPoints

\* C7: a press handled in a click-sequence trial at click index i appends
\* one click record with index i, scored from the distance between the press
\* and the target and from the time since the reaction clock was started;
\* below LastClickIndex the click index becomes i + 1, the target the next
\* configured position scaled by the canvas size, the clock restarts and no
\* trial-advance is scheduled; at LastClickIndex the click index and the
\* target stay and one trial-advance is scheduled.
C7_ClickHandled ==
    [][(PressStep /\ ClickTrialCurrent)
          => /\ Len(trialData') = Len(trialData) + 1
             /\ LET i == currentClickIndex
                    r == trialData'[Len(trialData')]
                    scored == calculateClickPoints(r.distance, r.reactionTime)
                IN /\ trialData' = Append(trialData, r)
                   /\ r.type = "click"
                   /\ r.instanceId = currentTrialIndex
                   /\ r.clickIndex = i
                   /\ r.distance = Distance([x |-> r.clickX, y |-> r.clickY],
                                            targetPosition)
                   /\ r.reactionTime = sinceClickStart
                   /\ r.points = scored.points
                   /\ r.grade = scored.grade
                   /\ IF i < LastClickIndex
                      THEN /\ currentClickIndex' = i + 1
                           /\ targetPosition' =
                                 Scale(CurrentTrial.positions[i + 2], canvasSize)
                           /\ sinceClickStart' = 0
                           /\ advanceTimers' = advanceTimers
                      ELSE /\ currentClickIndex' = i
                           /\ targetPosition' = targetPosition
                           /\ advanceTimers' =
                                 Append(advanceTimers,
                                        [remaining |-> advanceDelay,
                                         index |-> currentTrialIndex,
                                         length |-> Len(trials)])]_vars

\* C7 witness: a press off the centre and after TimeStep was handled at click
\* index 2, and the trial awaits click 3
C7_Witness ==
    /\ lastEvent = "press"
    /\ ClickTrialCurrent
    /\ currentClickIndex = 3
    /\ sinceClickStart = 0
    /\ LastResult.clickIndex = 2
    /\ LastResult.distance = 20
    /\ LastResult.reactionTime = TimeStep
    /\ LastResult.points > 0
    /\ LastResult.points < maxClickPoints

\* a tracking trial is current, its first press has not been handled: no
\* tracking closure is scheduled and the trial has no result
AwaitingFirstPress ==
    /\ TrackTrialCurrent
    /\ ~trackingStarted
    /\ \A i \in Slots : anims[i] = NoAnim
    /\ ~FinalResultEmitted(currentTrialIndex)

\* the path position at progress 0 of the current tracking trial
StartPosition ==
    getPositionOnPath(CurrentTrial.shape, CurrentTrial.params, 0,
                      CurrentTrial.params.duration,
                      canvasSize.width, canvasSize.height)

\* C8: from awaiting-first-press, every step that is not a press leaves
\* the runner there: the same trial index, the target at the path position
\* of progress 0, the tracking points 0, no tracking closure scheduled.
C8_AwaitingFirstPressStays ==
    [][(AwaitingFirstPress /\ ~PressStep)
          => /\ AwaitingFirstPress'
             /\ currentTrialIndex' = currentTrialIndex
             /\ targetPosition' = StartPosition'
             /\ trackingPointsRef' = 0]_vars

\* C9: a tracking closure (clock, sampler, frame driver) is started only by
\* a press handled in a tracking trial that has not started tracking, and
\* only when the trial instance has no closure scheduled and no result yet.
C9_ClockStartedOnce ==
    [][\A i \in Slots :
          (anims[i] = NoAnim /\ anims'[i] # NoAnim)
             => /\ PressStep
                /\ TrackTrialCurrent
                /\ ~trackingStarted
                /\ ~FinalResultEmitted(currentTrialIndex)
                /\ \A j \in Slots :
                      anims[j] # NoAnim => anims[j].index # currentTrialIndex]_vars

\* C10: at most one sampler and one frame driver are scheduled, and only
\* for the current trial, while it is mounted and tracking.
C10_OneSamplerOneDriver ==
    /\ Cardinality({i \in Slots : anims[i].intervalLive}) <= 1
    /\ Cardinality({i \in Slots : anims[i].frameLive}) <= 1
    /\ \A i \in Slots :
          (anims[i].intervalLive \/ anims[i].frameLive)
             => /\ mounted
                /\ TrackTrialCurrent
                /\ trackingStarted
                /\ anims[i].index = currentTrialIndex

\* the step is a sampler tick of the closure in slot i
SamplerTickStep(i) ==
    /\ anims[i].intervalLive
    /\ anims[i].nextSample = 0
    /\ anims'[i] # NoAnim
    /\ anims'[i].nextSample = samplingRate
    /\ anims'[i].elapsed = anims[i].elapsed

\* C11: a sampler tick at progress in [0,1] pushes one sample, stamped with
\* that elapsed time, and adds its points to the accumulated points; a
\* sampler tick at progress > 1 changes nothing; and the samples and the
\* accumulated points of a closure change at no other step.
C11_SamplingOnlyInProgress ==
    [][\A i \in Slots :
          LET a == anims[i]
              b == anims'[i]
          IN /\ SamplerTickStep(i)
                   => IF 0 <= a.elapsed /\ a.elapsed <= a.trial.params.duration
                      THEN /\ Len(b.samples) = Len(a.samples) + 1
                           /\ b.samples[Len(b.samples)].time = a.elapsed
                           /\ b.accumulatedPoints =
                                 a.accumulatedPoints
                                    + b.samples[Len(b.samples)].samplePoints
                      ELSE /\ b.samples = a.samples
                           /\ b.accumulatedPoints = a.accumulatedPoints
                           /\ UNCHANGED <<mounted, runVars, trialVars, cursorRef,
                                          canvasSize, countdownTimer, advanceTimers,
                                          animationRef, sampleIntervalRef>>
             /\ (a # NoAnim /\ b # NoAnim /\ ~SamplerTickStep(i))
                   => /\ b.samples = a.samples
                      /\ b.accumulatedPoints = a.accumulatedPoints]_vars

\* C11 witness: a sampler that has pushed samples ticked again past the
\* duration of its trial
C11_Witness ==
    \E i \in Slots :
        /\ anims[i].intervalLive
        /\ anims[i].elapsed > anims[i].trial.params.duration
        /\ anims[i].nextSample = samplingRate
        /\ anims[i].samples # <<>>

\* the sample the closure in slot i pushed last
LastSample(i) == anims[i].samples[Len(anims[i].samples)]

RECURSIVE TotalOf(_, _)
TotalOf(f, n) == IF n = 0 THEN 0 ELSE f[n] + TotalOf(f, n - 1)

\* the number of samples taken with the pointer pressed
PressedCount(samples) == Cardinality({k \in DOMAIN samples : samples[k].isClicking})

\* the sum of the samples' distances, and of their points (over
\* trackingMaxDistance)
DistanceTotal(samples) ==
    TotalOf([k \in DOMAIN samples |-> samples[k].distance], Len(samples))

PointsTotal(samples) ==
    TotalOf([k \in DOMAIN samples |-> samples[k].samplePoints], Len(samples))

\* the ratio r (num over den) equals num / den, or 0 when den = 0
RatioIs(r, num, den) ==
    /\ r.den > 0
    /\ IF den = 0 THEN r.num = 0 ELSE r.num * den = num * r.den

\* the step is the frame of the closure in slot i that observes
\* elapsed >= duration
CompletionStep(i) ==
    /\ anims[i].frameLive
    /\ anims[i].nextFrame = 0
    /\ anims[i].elapsed >= anims[i].trial.params.duration
    /\ ~anims'[i].frameLive
    /\ mounted' = mounted

\* C13: the frame that observes elapsed >= duration appends one tracking
\* record: accuracy the pressed samples over the samples (0 without
\* samples), average distance the mean of the sample distances (0 without
\* samples), points the sum of the sample points rounded once; it adds those
\* points to the total score and schedules one trial-advance.
C13_TrackResultAtCompletion ==
    [][\A i \in Slots :
          (CompletionStep(i) /\ mounted)
             => LET a == anims[i]
                    r == trialData'[Len(trialData')]
                IN /\ Len(trialData') = Len(trialData) + 1
                   /\ trialData' = Append(trialData, r)
                   /\ r.type = "track"
                   /\ r.instanceId = a.trial.instanceId
                   /\ r.samples = a.samples
                   /\ RatioIs(r.accuracy, PressedCount(a.samples), Len(a.samples))
                   /\ RatioIs(r.averageDistance, DistanceTotal(a.samples),
                              Len(a.samples))
                   /\ r.points = Round(PointsTotal(a.samples), trackingMaxDistance)
                   /\ totalScore' = totalScore + r.points
                   /\ advanceTimers' =
                         Append(advanceTimers,
                                [remaining |-> advanceDelay, index |-> a.index,
                                 length |-> a.length])]_vars

\* C13 witness: a tracking trial has just completed with two samples, one
\* of them 40 pixels from the target, and its 2.5 points were rounded to 3
C13_Witness ==
    /\ trialData # <<>>
    /\ LastResult.type = "track"
    /\ Len(LastResult.samples) = 2
    /\ LastResult.accuracy = [num |-> 2, den |-> 2]
    /\ PointsTotal(LastResult.samples) * 2 = maxPointsPerSample * trackingMaxDistance
    /\ LastResult.points = 3
    /\ totalScore >= 3
    /\ advanceTimers # <<>>

\* the run has one trial and has kept to its plain course: every press at
\* once and on the target centre, nothing else
PlainOneTrialRun ==
    /\ mounted
    /\ extras = 0
    /\ Len(trials) = 1
    /\ trials[1].type = "click_sequence"

\* C14: calculateClickPoints(0, 0) is maxClickPoints and PERFECT; in a run
\* of one click-sequence trial, five presses on the target with reaction
\* time 0 leave five click records with indices 0..4, each PERFECT with 400
\* points, the total score 2000, and the trial-advance that ends the run
\* pending or the run at 'results'; the run is at 'results' only with those
\* five records.
C14_FivePerfectClicks ==
    /\ calculateClickPoints(0, 0) = [points |-> maxClickPoints, grade |-> "PERFECT"]
    /\ (PlainOneTrialRun /\ Len(trialData) = LastClickIndex + 1)
          => /\ \A k \in DOMAIN trialData :
                   /\ trialData[k].type = "click"
                   /\ trialData[k].clickIndex = k - 1
                   /\ trialData[k].distance = 0
                   /\ trialData[k].reactionTime = 0
                   /\ trialData[k].points = 400
                   /\ trialData[k].grade = "PERFECT"
             /\ totalScore = 2000
             /\ \/ gameState = "results" /\ advanceTimers = <<>>
                \/ /\ gameState = "playing"
                   /\ Len(advanceTimers) = 1
                   /\ advanceTimers[1].index = 0
                   /\ advanceTimers[1].length = 1
    /\ (PlainOneTrialRun /\ gameState = "results")
          => Len(trialData) = LastClickIndex + 1

\* C14 witness: the run of one trial reached 'results' after five perfect
\* presses
C14_Witness ==
    /\ PlainOneTrialRun
    /\ gameState = "results"
    /\ Len(trialData) = 5
    /\ totalScore = 2000
    /\ \A k \in DOMAIN trialData : trialData[k].grade = "PERFECT"

\* the followed call is a completion of a tracking closure and has returned
TrackProbeDone == probe.fn = "track" /\ probe.done

\* C15: a tracking record with at least one sample, every sample pressed
\* and at distance 0, has accuracy 1, average distance 0, grade PERFECT and
\* maxPointsPerSample points for each sample.
C15_AllHeldOnTarget ==
    LET r == probe.result
    IN (/\ TrackProbeDone
        /\ Len(r.samples) >= 1
        /\ \A k \in DOMAIN r.samples :
              r.samples[k].isClicking /\ r.samples[k].distance = 0)
          => /\ RatioIs(r.accuracy, 1, 1)
             /\ RatioIs(r.averageDistance, 0, 1)
             /\ r.grade = "PERFECT"
             /\ r.points = maxPointsPerSample * Len(r.samples)

\* C15 witness: a completed closure with seven samples, all pressed and on
\* the target
C15_Witness ==
    /\ TrackProbeDone
    /\ Len(probe.result.samples) = 7
    /\ \A k \in DOMAIN probe.result.samples :
          probe.result.samples[k].isClicking /\ probe.result.samples[k].distance = 0
    /\ probe.result.points = 7 * maxPointsPerSample

\* the followed call is calculateClickPoints and has returned
ClickProbeDone == probe.fn = "click" /\ probe.done

\* C16: a click farther than targetRadius from the target scores 0 points
\* with grade MISS whatever the reaction time; a click within targetRadius
\* is never graded MISS, even when its points are 0.
C16_MissIffOutsideRadius ==
    ClickProbeDone
       => IF probe.distance > targetRadius
          THEN probe.result = [points |-> 0, grade |-> "MISS"]
          ELSE probe.result.grade # "MISS"

\* C16 witness: a click on the edge of the target, at once, scores 0 points
\* and is not a MISS
C16_Witness ==
    /\ ClickProbeDone
    /\ probe.distance = targetRadius
    /\ probe.reactionTime = 0
    /\ probe.result.points = 0
    /\ probe.result.grade = "OK"

\* C17: the points of calculateClickPoints lie in 0..maxClickPoints and do
\* not increase when the distance grows or when the reaction time grows,
\* the steps across targetRadius and maxReactionTime included.
C17_ClickPointsMonotone ==
    ClickProbeDone
       => LET points == probe.result.points
              farther == calculateClickPoints(probe.distance + 1,
                                              probe.reactionTime).points
              later == calculateClickPoints(probe.distance,
                                            probe.reactionTime + 1).points
          IN /\ points \in 0..maxClickPoints
             /\ farther <= points
             /\ later <= points

\* C17 witness: a click 10 pixels off after 200 ms scores 240 points, one
\* pixel farther 232, and the last pixel inside the target scores more than
\* the first one outside
C17_Witness ==
    /\ ClickProbeDone
    /\ probe.distance = 10
    /\ probe.reactionTime = 200
    /\ probe.result.points = 240
    /\ calculateClickPoints(11, 200).points = 232
    /\ calculateClickPoints(targetRadius - 1, 0).points
          > calculateClickPoints(targetRadius + 1, 0).points

\* C18: for a click within targetRadius the grade is PERFECT exactly when
\* the distance is at most clickPerfectDist and the reaction time at most
\* clickPerfectTime; otherwise GREAT exactly when the distance is at most
\* clickGreatDist and the reaction time at most clickGreatTime; otherwise
\* OK.
C18_ClickGradeLadder ==
    (ClickProbeDone /\ probe.distance <= targetRadius)
       => LET perfect == /\ probe.distance <= clickPerfectDist
                         /\ probe.reactionTime <= clickPerfectTime
              great == /\ ~perfect
                       /\ probe.distance <= clickGreatDist
                       /\ probe.reactionTime <= clickGreatTime
              grade == probe.result.grade
          IN /\ grade \in {"PERFECT", "GREAT", "OK"}
             /\ (grade = "PERFECT") <=> perfect
             /\ (grade = "GREAT") <=> great
             /\ (grade = "OK") <=> (~perfect /\ ~great)

\* C18 witness: a click on both PERFECT thresholds is PERFECT, and the
\* same click one millisecond later is GREAT
C18_Witness ==
    /\ ClickProbeDone
    /\ probe.distance = clickPerfectDist
    /\ probe.reactionTime = clickPerfectTime
    /\ probe.result.grade = "PERFECT"
    /\ calculateClickPoints(clickPerfectDist, clickPerfectTime + 1).grade = "GREAT"
    /\ calculateClickPoints(clickGreatDist + 1, 0).grade = "OK"

\* the followed call is calculateTrackingSamplePoints and has returned
SampleProbeDone == probe.fn = "sample" /\ probe.done

\* C19: calculateTrackingSamplePoints is 0 when the pointer is not pressed;
\* pressed, it is maxPointsPerSample * max(0, 1 - distance /
\* trackingMaxDistance): maxPointsPerSample at distance 0, 0 from
\* trackingMaxDistance on, and always within 0..maxPointsPerSample (the
\* result is written as its numerator over trackingMaxDistance).
C19_SamplePoints ==
    SampleProbeDone
       => LET d == probe.distance
              points == probe.result
          IN /\ ~probe.isClicking => points = 0
             /\ probe.isClicking
                   => /\ d < trackingMaxDistance
                         => points = maxPointsPerSample * (trackingMaxDistance - d)
                      /\ d >= trackingMaxDistance => points = 0
                      /\ d = 0 => points = maxPointsPerSample * trackingMaxDistance
             /\ points >= 0
             /\ points <= maxPointsPerSample * trackingMaxDistance

\* C19 witness: pressed and 40 pixels from the target a sample is worth
\* half of maxPointsPerSample, on the target all of it, at
\* trackingMaxDistance nothing
C19_Witness ==
    /\ SampleProbeDone
    /\ probe.isClicking
    /\ probe.distance = 40
    /\ probe.result * 2 = maxPointsPerSample * trackingMaxDistance
    /\ calculateTrackingSamplePoints(0, TRUE)
          = maxPointsPerSample * trackingMaxDistance
    /\ calculateTrackingSamplePoints(trackingMaxDistance, TRUE) = 0

\* C20: the grade of a tracking record is fixed by the share of its samples
\* taken with the pointer pressed: PERFECT from 0.9, GREAT from 0.7 to below
\* 0.9, OK from 0.5 to below 0.7, POOR below 0.5 and without samples; the
\* same samples at another distance from the target get the same grade.
C20_TrackGradeByHeldRatio ==
    TrackProbeDone
       => LET r == probe.result
              total == Len(r.samples)
              held == PressedCount(r.samples)
              onTarget == TrackData(ProbeAnim([probe EXCEPT !.distance = 0]))
          IN /\ r.grade = (IF total = 0 THEN "POOR"
                           ELSE IF 10 * held >= 9 * total THEN "PERFECT"
                           ELSE IF 10 * held >= 7 * total THEN "GREAT"
                           ELSE IF 10 * held >= 5 * total THEN "OK"
                           ELSE "POOR")
             /\ r.grade = onTarget.grade

\* C20 witness: nine of ten samples pressed, each trackingMaxDistance from
\* the target: no points, grade PERFECT
C20_Witness ==
    /\ TrackProbeDone
    /\ Len(probe.result.samples) = 10
    /\ PressedCount(probe.result.samples) = 9
    /\ \A k \in DOMAIN probe.result.samples :
          probe.result.samples[k].distance = trackingMaxDistance
    /\ probe.result.points = 0
    /\ probe.result.grade = "PERFECT"

\* the trial instance is a copy of the catalog entry t
CopyOf(instance, t) ==
    /\ instance.id = t.id
    /\ instance.type = t.type
    /\ IF t.type = "click_sequence"
       THEN instance.positions = t.positions
       ELSE instance.shape = t.shape /\ instance.params = t.params

\* the step is startGame
StartGameStep == gameState = "intro" /\ gameState' = "countdown"

\* C21: startGame leaves exactly totalTrials (NumTrials) trial instances,
\* each a copy of an entry of the catalog, with the instance ids 0, 1, ...
\* in list order, the current trial index 0, no results and total score 0.
C21_RunInitialization ==
    [][StartGameStep
          => /\ Len(trials') = NumTrials
             /\ \A k \in 1..NumTrials :
                   /\ \E t \in allTrialTypes : CopyOf(trials'[k], t)
                   /\ trials'[k].instanceId = k - 1
             /\ currentTrialIndex' = 0
             /\ trialData' = <<>>
             /\ totalScore' = 0]_vars

\* C21 witness: startGame has run and drew the same catalog entry for its
\* first two trials
C21_Witness ==
    /\ gameState = "countdown"
    /\ countdown = countdownStart
    /\ Len(trials) = NumTrials
    /\ trials[1].id = trials[2].id
    /\ trials[1].instanceId = 0
    /\ trials[2].instanceId = 1
    /\ currentTrialIndex = 0
    /\ trialData = <<>>
    /\ totalScore = 0

\* the followed call is getPositionOnPath and has returned
PathProbeDone == probe.fn = "path" /\ probe.done

\* the position the followed call's shape has at progress e / progressSteps
\* on the followed call's canvas
PositionAt(e) ==
    getPositionOnPath(probe.trial.shape, probe.trial.params, e, progressSteps,
                      probe.size.width, probe.size.height)

\* C22: for every track shape of the catalog and every canvas size the
\* position at progress 0 is the declared start position (startX, startY)
\* scaled by the canvas width and height; a progress below 0 gives the
\* position of progress 0 and a progress above 1 the position of progress 1.
C22_PathStartAndClamp ==
    (PathProbeDone /\ probe.trial \in trackShapes)
       => LET start == [x |-> probe.trial.params.startX,
                        y |-> probe.trial.params.startY]
          IN /\ PositionAt(0) = Scale(start, probe.size)
             /\ probe.elapsed <= 0 => probe.result = Scale(start, probe.size)
             /\ probe.elapsed <= 0 => probe.result = PositionAt(0)
             /\ probe.elapsed >= progressSteps
                   => probe.result = PositionAt(progressSteps)

\* C22 witness: the circle asked for a progress below 0 on the 800 x 600
\* canvas is at its declared start, the top of the circle
C22_Witness ==
    /\ PathProbeDone
    /\ probe.trial = track_circle
    /\ probe.elapsed < 0
    /\ probe.size = [width |-> 800, height |-> 600]
    /\ probe.result = [x |-> 400, y |-> 150]

\* the two exact positions are the same
SamePoint(a, b) ==
    /\ a.x.num * b.x.den = b.x.num * a.x.den
    /\ a.y.num * b.y.den = b.y.num * a.y.den

\* the control point points[k] of the code
ControlPoint(points, k) ==
    [x |-> [num |-> points[k + 1][1], den |-> 1],
     y |-> [num |-> points[k + 1][2], den |-> 1]]

\* C23: for a blob or zigzag of N >= 2 control points and a progress in
\* [0, 1] the segment index is min(floor(progress * (N - 1)), N - 2): it and
\* its successor are indices of the point list and the local fraction is in
\* [0, 1]; at progress k / (N - 1) the end of segment k - 1 and the start of
\* segment k are both control point k, which is the position returned; at
\* progress 1 the position is the last control point.
C23_PolylineSegments ==
    (/\ PathProbeDone
     /\ probe.trial.shape \in {"blob", "zigzag"}
     /\ probe.elapsed \in 0..progressSteps)
       => LET shape == probe.trial.shape
              points == probe.trial.params.points
              N == Len(points)
              index == segmentIndex(points, probe.elapsed, progressSteps)
              fraction == localT(points, probe.elapsed, progressSteps)
              scaled == probe.elapsed * (N - 1)
              k == scaled \div progressSteps
          IN /\ N >= 2
             /\ index = Min(k, N - 2)
             /\ index \in 0..(N - 2)
             /\ index + 1 \in DOMAIN points
             /\ index + 2 \in DOMAIN points
             /\ fraction \in 0..progressSteps
             /\ (scaled % progressSteps = 0 /\ k \in 1..(N - 2))
                   => /\ SamePoint(SegmentPoint(shape, points, k - 1,
                                                progressSteps, progressSteps),
                                   ControlPoint(points, k))
                      /\ SamePoint(SegmentPoint(shape, points, k, 0, progressSteps),
                                   ControlPoint(points, k))
                      /\ probe.result = ToPixels(ControlPoint(points, k),
                                                 probe.size.width, probe.size.height)
             /\ probe.elapsed = progressSteps
                   => /\ SamePoint(SegmentPoint(shape, points, index, fraction,
                                                progressSteps),
                                   ControlPoint(points, N - 1))
                      /\ probe.result = ToPixels(ControlPoint(points, N - 1),
                                                 probe.size.width, probe.size.height)

\* C23 witness: the blob at progress 2/3 on the 800 x 600 canvas is at its
\* third control point, where its last segment starts
C23_Witness ==
    /\ PathProbeDone
    /\ probe.trial = track_blob
    /\ probe.elapsed * 3 = progressSteps * 2
    /\ probe.size = [width |-> 800, height |-> 600]
    /\ segmentIndex(probe.trial.params.points, probe.elapsed, progressSteps) = 2
    /\ localT(probe.trial.params.points, probe.elapsed, progressSteps) = 0
    /\ probe.result = [x |-> 600, y |-> 420]

\* the step runs the oldest pending nextTrial, scheduled on the last trial
LastTrialAdvanceStep ==
    /\ advanceTimers # <<>>
    /\ advanceTimers' = Tail(advanceTimers)
    /\ Head(advanceTimers).index = Len(trials) - 1
    /\ currentTrialIndex = Len(trials) - 1

\* the step ran startTrial
StartTrialStep == lastEvent' = "start"

\* C24: the game state changes only from 'intro' to 'countdown', from
\* 'countdown' to 'playing' when the countdown, counted down by one from 3,
\* reaches 0, from 'playing' to 'results' by the trial-advance of the last
\* trial (and from 'results' back to 'intro' by PLAY AGAIN); startTrial runs
\* only in 'playing'.
C24_GameStateOrder ==
    [][/\ gameState' # gameState
             => \/ /\ gameState = "intro"
                   /\ gameState' = "countdown"
                   /\ countdown' = 3
                \/ /\ gameState = "countdown"
                   /\ gameState' = "playing"
                   /\ countdown = 1
                   /\ countdown' = 0
                \/ /\ gameState = "playing"
                   /\ gameState' = "results"
                   /\ LastTrialAdvanceStep
                \/ /\ gameState = "results"
                   /\ gameState' = "intro"
       /\ (gameState = "countdown" /\ countdown' # countdown)
             => countdown' = countdown - 1
       /\ StartTrialStep => gameState' = "playing"]_vars

\* the step stays within one trial: 'playing' with the same current trial
\* before and after
SameTrialStep ==
    /\ gameState = "playing"
    /\ gameState' = "playing"
    /\ HasTrial(currentTrialIndex)
    /\ currentTrialIndex' = currentTrialIndex
    /\ trials' = trials

\* a sampler or a frame driver of the current trial is scheduled
TrackingRuns ==
    \E i \in Slots :
        /\ anims[i].intervalLive \/ anims[i].frameLive
        /\ anims[i].index = currentTrialIndex

\* C25: startTrial runs only when 'playing' begins or the current trial
\* index changes; within one trial the click index is not set back to 0
\* after a click was recorded, and tracking-started is not set back to false
\* while a sampler or frame driver of the trial is scheduled.
C25_NoTrialReentry ==
    [][/\ StartTrialStep
             => \/ gameState = "countdown" /\ gameState' = "playing"
                \/ currentTrialIndex' # currentTrialIndex
       /\ (SameTrialStep /\ currentClickIndex > 0) => currentClickIndex' # 0
       /\ (SameTrialStep /\ trackingStarted /\ TrackingRuns)
             => trackingStarted']_vars

\* the step appends the first record of a trial instance
FirstRecordStep ==
    /\ Len(trialData') = Len(trialData) + 1
    /\ \A k \in DOMAIN trialData :
          trialData[k].instanceId # trialData'[Len(trialData')].instanceId

\* C26: every startTrial leaves tracking-started false, the pressed flag
\* false and the tracking points 0, and in a click-sequence trial the click
\* index 0, the target at the first position and the reaction clock at 0;
\* the first click recorded for a trial has click index 0 and a tracking
\* closure starts with no samples and no points.
C26_StartTrialResets ==
    [][/\ StartTrialStep
             => /\ ~trackingStarted'
                /\ ~isClickingRef'
                /\ trackingPointsRef' = 0
                /\ ClickTrialCurrent'
                      => /\ currentClickIndex' = 0
                         /\ targetPosition'
                               = Scale(CurrentTrial'.positions[1], canvasSize')
                         /\ sinceClickStart' = 0
       /\ (FirstRecordStep /\ trialData'[Len(trialData')].type = "click")
             => trialData'[Len(trialData')].clickIndex = 0
       /\ \A i \in Slots :
             (anims[i] = NoAnim /\ anims'[i] # NoAnim)
                => /\ anims'[i].samples = <<>>
                   /\ anims'[i].accumulatedPoints = 0
                   /\ anims'[i].elapsed = 0]_vars

\* C26 witness: the second trial, a click sequence, has just been started
\* after a tracking trial that was held and scored points
C26_Witness ==
    /\ lastEvent = "start"
    /\ currentTrialIndex = 1
    /\ ClickTrialCurrent
    /\ trialData # <<>>
    /\ LastResult.type = "track"
    /\ LastResult.points > 0
    /\ LastResult.samples[Len(LastResult.samples)].isClicking
    /\ ~isClickingRef
    /\ trackingPointsRef = 0
    /\ currentClickIndex = 0

\* the sum of the points of the records in the results list
RecordedPoints ==
    TotalOf([k \in DOMAIN trialData |-> trialData[k].points], Len(trialData))

\* C27: the total score is the sum of the points of the records in the
\* results list.
C27_ScoreIsSumOfRecords == totalScore = RecordedPoints

\* C27 witness: a run holds click records and a tracking record, and the
\* tracking trial scored points on top of a perfect click sequence
C27_Witness ==
    /\ \E k \in DOMAIN trialData : trialData[k].type = "click"
    /\ \E k \in DOMAIN trialData :
          trialData[k].type = "track" /\ trialData[k].points > 0
    /\ totalScore > 5 * maxClickPoints
    /\ totalScore = RecordedPoints

\* instance id, type and click index of the records the trial instance has
\* to leave: one per position of a click sequence, one for a track
RecordsOf(trial) ==
    IF trial.type = "click_sequence"
    THEN [k \in 1..Len(trial.positions) |->
             [instanceId |-> trial.instanceId, type |-> "click", clickIndex |-> k - 1]]
    ELSE <<[instanceId |-> trial.instanceId, type |-> "track", clickIndex |-> 0]>>

\* the records the first n trials of the run have to leave, in order
RECURSIVE ExpectedRecords(_)
ExpectedRecords(n) ==
    IF n = 0 THEN <<>> ELSE ExpectedRecords(n - 1) \o RecordsOf(trials[n])

\* instance id, type and click index of the records in the results list
RecordedShape ==
    [k \in DOMAIN trialData |->
        [instanceId |-> trialData[k].instanceId,
         type |-> trialData[k].type,
         clickIndex |-> IF trialData[k].type = "click"
                        THEN trialData[k].clickIndex ELSE 0]]

\* C28: at 'results' the results list holds, for the trial instances 0, 1,
\* ... in this order, five click records with the click indices 0..4 for a
\* click sequence and one tracking record for a track, and nothing else.
C28_CompleteResults ==
    gameState = "results" => RecordedShape = ExpectedRecords(Len(trials))

\* C29: startGame after PLAY AGAIN begins with no results, total score 0
\* and trial index 0, and until the countdown of the new run is over (no
\* trial of the new run has begun) nothing adds a result, changes the score
\* or changes the trial index.
C29_CleanRestart ==
    [][/\ StartGameStep
             => /\ trialData' = <<>>
                /\ totalScore' = 0
                /\ currentTrialIndex' = 0
       /\ gameState = "countdown"
             => /\ trialData' = trialData
                /\ totalScore' = totalScore
                /\ currentTrialIndex' = currentTrialIndex]_vars

====
